---- MODULE Spec2Model ----
(***************************************************************************)
(* A model of @ekaone/mask-phone (src/src/index.ts, types in               *)
(* src/unnamed/part_000).                                                  *)
(*                                                                         *)
(* A JavaScript string is a sequence of one-character strings.  An         *)
(* optional value (a property that may be undefined) is a sequence of      *)
(* length 0 (undefined) or 1 (the value).  A function result is a record   *)
(* [thrown, value]: thrown is TRUE when the call raised instead of         *)
(* returning.                                                              *)
(***************************************************************************)
EXTENDS Integers, Sequences, FiniteSets, TLC

VARIABLES
    phone,          \* the first argument of the maskPhone call
    options,        \* the second argument of the maskPhone call
    pc,             \* "idle" before the call, "done" after it
    phoneStr,       \* local of maskPhone: the normalized input
    normalizedOpts, \* local of maskPhone: the resolved options
    result,         \* what the call returned or raised
    calls,          \* the invocations in flight, one frame per context
    digitIndex      \* the digit counters of maskWithFormat, by cell

vars == <<phone, options, pc, phoneStr, normalizedOpts, result, calls, digitIndex>>

----------------------------------------------------------------------------
(* Bounds of the model *)

\* longest input string drawn
MaxLen == 3
\* largest showFirst / showLast / showStart / showEnd / range index drawn
MaxShow == 2

----------------------------------------------------------------------------
(* Values *)

None == <<>>
Some(v) == <<v>>

\* a ?? b
Coalesce(a, b) == IF a # None THEN a[1] ELSE b

Returned(s) == [thrown |-> FALSE, value |-> s]
Thrown == [thrown |-> TRUE, value |-> <<>>]
\* a call that raised the fault e
Raise(e) == [thrown |-> TRUE, value |-> e]

\* \d of the regular expressions
Digits == {"0", "1", "2", "3", "4", "5", "6", "7", "8", "9"}
DigitChars == <<"0", "1", "2", "3", "4", "5", "6", "7", "8", "9">>

\* \s of the regular expressions and of String.prototype.trim
WhiteSpace == {" ", "\t", "\n"}

RECURSIVE Filter(_, _)
\* the characters of s that are in the set keep, in order
Filter(s, keep) ==
    IF s = <<>> THEN <<>>
    ELSE (IF Head(s) \in keep THEN <<Head(s)>> ELSE <<>>) \o Filter(Tail(s), keep)

RECURSIVE Concat(_)
\* join(""): the strings of ss one after the other
Concat(ss) == IF ss = <<>> THEN <<>> ELSE Head(ss) \o Concat(Tail(ss))

RECURSIVE TrimStart(_)
TrimStart(s) ==
    IF s # <<>> /\ Head(s) \in WhiteSpace THEN TrimStart(Tail(s)) ELSE s

RECURSIVE TrimEnd(_)
TrimEnd(s) ==
    IF s # <<>> /\ s[Len(s)] \in WhiteSpace
    THEN TrimEnd(SubSeq(s, 1, Len(s) - 1))
    ELSE s

\* String.prototype.trim
Trim(s) == TrimEnd(TrimStart(s))

RECURSIVE NatToStr(_)
\* the decimal digits of a natural number
NatToStr(n) ==
    IF n < 10 THEN <<DigitChars[n + 1]>>
    ELSE NatToStr(n \div 10) \o <<DigitChars[(n % 10) + 1]>>

\* String(n) of an integer
IntToStr(n) == IF n < 0 THEN <<"-">> \o NatToStr(0 - n) ELSE NatToStr(n)

\* String(v): the string conversion of a value of any type.  An object that
\* inherits Object.prototype.toString gives "[object Object]"; an object
\* without a string conversion (Object.create(null)) makes String raise a
\* TypeError.
StringOf(v) ==
    CASE v.kind = "string" -> Returned(v.str)
      [] v.kind = "number" -> Returned(IntToStr(v.num))
      [] v.kind = "bigint" -> Returned(IntToStr(v.num))
      [] v.kind = "boolean" ->
            Returned(IF v.num = 1 THEN <<"t", "r", "u", "e">>
                                  ELSE <<"f", "a", "l", "s", "e">>)
      [] v.kind = "null" -> Returned(<<"n", "u", "l", "l">>)
      [] v.kind = "undefined" ->
            Returned(<<"u", "n", "d", "e", "f", "i", "n", "e", "d">>)
      [] v.kind = "object" ->
            Returned(<<"[", "o", "b", "j", "e", "c", "t", " ",
                       "O", "b", "j", "e", "c", "t", "]">>)
      [] v.kind = "bareObject" -> Thrown

IsObject(v) == v.kind \in {"object", "bareObject"}

----------------------------------------------------------------------------
(* src/src/index.ts *)

\* DEFAULT_OPTIONS
DEFAULT_OPTIONS ==
    [maskChar |-> <<"*">>, showLast |-> 4, preserveFormat |-> FALSE]

\* normalizePhone with the trim dropped
normalizePhoneNoTrim(p) ==
    IF p.kind \in {"null", "undefined"} THEN Returned(<<>>)
    ELSE StringOf(IF IsObject(p) /\ p.prop # None THEN p.prop[1] ELSE p)

\* normalizePhone
normalizePhone(p) ==
    IF p.kind \in {"null", "undefined"} THEN Returned(<<>>)
    ELSE LET s == StringOf(IF IsObject(p) /\ p.prop # None THEN p.prop[1] ELSE p)
         IN  IF s.thrown THEN Thrown ELSE Returned(Trim(s.value))

\* stripFormatting that keeps digits only
stripFormattingDigitsOnly(s) == Filter(s, Digits)

\* stripFormatting that deletes the separators instead of keeping digits and '+'
stripFormattingSeparators(s) ==
    SelectSeq(s, LAMBDA c : c \notin WhiteSpace \cup {"-", "(", ")", "."})

\* stripFormatting: phone.replace(/[^\d+]/g, "")
stripFormatting(s) == Filter(s, Digits \cup {"+"})

\* normalizeOptions where an alias wins over its name
normalizeOptionsAliasFirst(o) ==
    IF o = None
    THEN [maskChar |-> DEFAULT_OPTIONS.maskChar,
          showFirst |-> 0,
          showLast |-> DEFAULT_OPTIONS.showLast,
          visibleRanges |-> None,
          preserveFormat |-> DEFAULT_OPTIONS.preserveFormat,
          customMask |-> None]
    ELSE [maskChar |-> Coalesce(o[1].maskChar, DEFAULT_OPTIONS.maskChar),
          showFirst |-> Coalesce(o[1].showStart, Coalesce(o[1].showFirst, 0)),
          showLast |-> Coalesce(o[1].showEnd,
                                Coalesce(o[1].showLast, DEFAULT_OPTIONS.showLast)),
          visibleRanges |-> o[1].visibleRanges,
          preserveFormat |-> Coalesce(o[1].preserveFormat,
                                      DEFAULT_OPTIONS.preserveFormat),
          customMask |-> o[1].customMask]

\* normalizeOptions
normalizeOptions(o) ==
    IF o = None
    THEN [maskChar |-> DEFAULT_OPTIONS.maskChar,
          showFirst |-> 0,
          showLast |-> DEFAULT_OPTIONS.showLast,
          visibleRanges |-> None,
          preserveFormat |-> DEFAULT_OPTIONS.preserveFormat,
          customMask |-> None]
    ELSE [maskChar |-> Coalesce(o[1].maskChar, DEFAULT_OPTIONS.maskChar),
          showFirst |-> Coalesce(o[1].showFirst, Coalesce(o[1].showStart, 0)),
          showLast |-> Coalesce(o[1].showLast,
                                Coalesce(o[1].showEnd, DEFAULT_OPTIONS.showLast)),
          visibleRanges |-> o[1].visibleRanges,
          preserveFormat |-> Coalesce(o[1].preserveFormat,
                                      DEFAULT_OPTIONS.preserveFormat),
          customMask |-> o[1].customMask]

\* isCharVisible that asks every range to hold the index
isCharVisibleAllRanges(index, length, o) ==
    IF o.visibleRanges # None /\ Len(o.visibleRanges[1]) > 0
    THEN \A k \in 1..Len(o.visibleRanges[1]) :
            /\ index >= o.visibleRanges[1][k][1]
            /\ index <= o.visibleRanges[1][k][2]
    ELSE \/ (o.showFirst > 0 /\ index < o.showFirst)
         \/ (o.showLast > 0 /\ index >= length - o.showLast)

\* isCharVisible whose showLast window starts one character late
isCharVisibleLate(index, length, o) ==
    IF o.visibleRanges # None /\ Len(o.visibleRanges[1]) > 0
    THEN \E k \in 1..Len(o.visibleRanges[1]) :
            /\ index >= o.visibleRanges[1][k][1]
            /\ index <= o.visibleRanges[1][k][2]
    ELSE \/ (o.showFirst > 0 /\ index < o.showFirst)
         \/ (o.showLast > 0 /\ index > length - o.showLast)

\* isCharVisible
isCharVisible(index, length, o) ==
    IF o.visibleRanges # None /\ Len(o.visibleRanges[1]) > 0
    THEN \E k \in 1..Len(o.visibleRanges[1]) :
            /\ index >= o.visibleRanges[1][k][1]
            /\ index <= o.visibleRanges[1][k][2]
    ELSE \/ (o.showFirst > 0 /\ index < o.showFirst)
         \/ (o.showLast > 0 /\ index >= length - o.showLast)

\* isFormattingChar without the plus sign: /[\s\-().]/
isFormattingCharNoPlus(char) == char \in WhiteSpace \cup {"-", "(", ")", "."}

\* isFormattingChar: /[\s\-().\+]/
isFormattingChar(char) == char \in WhiteSpace \cup {"-", "(", ")", ".", "+"}

\* options.customMask(char, index, phone): the callbacks a caller passes
\*   keep      (char) => char
\*   nines     (char) => (char.match(/\d/) ? "9" : char)
\*   evenStar  (char, idx) => idx % 2 === 0 ? '*' : char
\*   lastBang  (char, idx, phone) => idx === phone.length - 1 ? '!' : char
\*   drop      () => ""
\*   twice     (char) => char + char
\*   fault     () => { throw new Error("fault") }
\*   faultSecond  (char, idx) => { if (idx >= 1) throw new Error("fault" + char); return char }
customMask(f, char, index, s) ==
    CASE f = "keep" -> Returned(<<char>>)
      [] f = "nines" -> Returned(IF char \in Digits THEN <<"9">> ELSE <<char>>)
      [] f = "evenStar" -> Returned(IF index % 2 = 0 THEN <<"*">> ELSE <<char>>)
      [] f = "lastBang" -> Returned(IF index = Len(s) - 1 THEN <<"!">> ELSE <<char>>)
      [] f = "drop" -> Returned(<<>>)
      [] f = "twice" -> Returned(<<char, char>>)
      [] f = "fault" -> Raise(<<"fault">>)
      [] f = "faultSecond" -> IF index >= 1 THEN Raise(<<"fault", char>>)
                              ELSE Returned(<<char>>)

\* the digit counter when every character advances it, separators too
nextDigitIndexEveryChar(s, o, charIndex, d) ==
    IF o.customMask # None THEN d ELSE d + 1

\* the digit counter after the callback of maskWithFormat has handled the
\* character at charIndex (0-based), d being the counter before it
nextDigitIndex(s, o, charIndex, d) ==
    IF o.customMask # None THEN d
    ELSE IF isFormattingChar(s[charIndex + 1]) THEN d
    ELSE d + 1

\* the callback of maskWithFormat's map when it drops the formatting characters
formatCharDropsSeparators(s, o, charIndex, d) ==
    LET char == s[charIndex + 1]
        totalDigits == Len(Filter(s, Digits))
    IN  IF o.customMask # None
        THEN customMask(o.customMask[1], char, charIndex, s)
        ELSE IF isFormattingChar(char) THEN Returned(<<>>)
        ELSE IF isCharVisible(d + 1, totalDigits, o) THEN Returned(<<char>>)
        ELSE Returned(o.maskChar)

\* the callback of maskWithFormat's map: what the character at charIndex
\* (0-based) becomes, d being the digit counter before it
formatChar(s, o, charIndex, d) ==
    LET char == s[charIndex + 1]
        totalDigits == Len(Filter(s, Digits))
    IN  IF o.customMask # None
        THEN customMask(o.customMask[1], char, charIndex, s)
        ELSE IF isFormattingChar(char) THEN Returned(<<char>>)
        ELSE IF isCharVisible(d + 1, totalDigits, o) THEN Returned(<<char>>)
        ELSE Returned(o.maskChar)

\* plainChar that tests a digit with its position among the digits only
plainCharDigitIndex(stripped, o, index) ==
    LET char == stripped[index + 1]
        digits == SelectSeq(stripped, LAMBDA c : c # "+")
        before == SelectSeq(SubSeq(stripped, 1, index), LAMBDA c : c # "+")
    IN  IF o.customMask # None
        THEN customMask(o.customMask[1], char, index, stripped)
        ELSE IF char = "+" THEN Returned(<<char>>)
        ELSE IF isCharVisible(Len(before), Len(digits), o) THEN Returned(<<char>>)
        ELSE Returned(o.maskChar)

\* plainChar without the pass-through of the plus sign
plainCharMasksPlus(stripped, o, index) ==
    LET char == stripped[index + 1]
    IN  IF o.customMask # None
        THEN customMask(o.customMask[1], char, index, stripped)
        ELSE IF isCharVisible(index, Len(stripped), o) THEN Returned(<<char>>)
        ELSE Returned(o.maskChar)

\* the callback of maskWithoutFormat's map: what the character at index
\* (0-based) of the stripped string becomes
plainChar(stripped, o, index) ==
    LET char == stripped[index + 1]
    IN  IF o.customMask # None
        THEN customMask(o.customMask[1], char, index, stripped)
        ELSE IF char = "+" THEN Returned(<<char>>)
        ELSE IF isCharVisible(index, Len(stripped), o) THEN Returned(<<char>>)
        ELSE Returned(o.maskChar)

RECURSIVE mapFormat(_, _, _, _)
\* split("").map(...).join("") of maskWithFormat from charIndex on
mapFormat(s, o, charIndex, d) ==
    IF charIndex >= Len(s) THEN Returned(<<>>)
    ELSE LET c == formatChar(s, o, charIndex, d)
             rest == mapFormat(s, o, charIndex + 1, nextDigitIndex(s, o, charIndex, d))
         IN  IF c.thrown THEN c
             ELSE IF rest.thrown THEN rest
             ELSE Returned(c.value \o rest.value)

\* maskWithFormat
maskWithFormat(s, o) == mapFormat(s, o, 0, -1)

RECURSIVE mapPlain(_, _, _)
\* split("").map(...).join("") of maskWithoutFormat from index on
mapPlain(stripped, o, index) ==
    IF index >= Len(stripped) THEN Returned(<<>>)
    ELSE LET c == plainChar(stripped, o, index)
             rest == mapPlain(stripped, o, index + 1)
         IN  IF c.thrown THEN c
             ELSE IF rest.thrown THEN rest
             ELSE Returned(c.value \o rest.value)

\* maskWithoutFormat
maskWithoutFormat(s, o) == mapPlain(stripFormatting(s), o, 0)

\* the masker maps over the normalized string in both modes
mapInputUnstripped(s, o) == s

\* the string whose characters the masker of the chosen strategy maps over
\* and hands to customMask: phone in maskWithFormat, stripped in
\* maskWithoutFormat
mapInput(s, o) == IF o.preserveFormat THEN s ELSE stripFormatting(s)

\* a fault of the callback is caught and mapping goes on
afterCallbackSwallows(r) == "masking"

\* where a call stands after the callback of map has returned or raised r:
\* neither masker catches, a fault ends the call
afterCallback(r) == IF r.thrown THEN "done" ELSE "masking"

\* the bypass test of maskPhone with < in place of <=
bypassStrict(s, rawOptions, o) ==
    /\ ~(rawOptions # None /\ rawOptions[1].customMask # None)
    /\ ~(rawOptions # None /\ rawOptions[1].visibleRanges # None)
    /\ Len(stripFormatting(s)) < o.showFirst + o.showLast

\* the bypass test of maskPhone that does not look at customMask
bypassIgnoresCustom(s, rawOptions, o) ==
    /\ ~(rawOptions # None /\ rawOptions[1].visibleRanges # None)
    /\ Len(stripFormatting(s)) <= o.showFirst + o.showLast

\* the bypass test of maskPhone: nothing to mask
bypass(s, rawOptions, o) ==
    /\ ~(rawOptions # None /\ rawOptions[1].customMask # None)
    /\ ~(rawOptions # None /\ rawOptions[1].visibleRanges # None)
    /\ Len(stripFormatting(s)) <= o.showFirst + o.showLast

\* maskPhone without the bypass: every input goes to a masker
maskNormalizedNoBypass(s, rawOptions) ==
    LET o == normalizeOptions(rawOptions)
    IN  IF o.preserveFormat THEN maskWithFormat(s, o)
        ELSE maskWithoutFormat(s, o)

\* maskPhone once the input is normalized to the non-empty string s
maskNormalized(s, rawOptions) ==
    LET o == normalizeOptions(rawOptions)
    IN  IF bypass(s, rawOptions, o) THEN Returned(s)
        ELSE IF o.preserveFormat THEN maskWithFormat(s, o)
        ELSE maskWithoutFormat(s, o)

\* maskPhone
maskPhone(p, rawOptions) ==
    LET n == normalizePhone(p)
    IN  IF n.thrown THEN Thrown
        ELSE IF n.value = <<>> THEN Returned(<<>>)
        ELSE maskNormalized(n.value, rawOptions)

----------------------------------------------------------------------------
(* The values a caller passes *)

Value(k, s, n, p) == [kind |-> k, str |-> s, num |-> n, prop |-> p]

StringValue(s) == Value("string", s, 0, None)
NumberValue(n) == Value("number", <<>>, n, None)
NullValue == Value("null", <<>>, 0, None)
UndefinedValue == Value("undefined", <<>>, 0, None)

\* the characters input strings are made of: digits, '+', a separator, a
\* whitespace character and a letter
Alphabet == {"1", "2", "+", "-", " ", "a"}

StringsUpTo(n) == UNION {[1..k -> Alphabet] : k \in 0..n}

\* values that are not objects
Primitives ==
    {StringValue(s) : s \in StringsUpTo(MaxLen)}
    \cup {NumberValue(n) : n \in {0, 7, 12345, -12}}
    \cup {Value("bigint", <<>>, 12345, None)}
    \cup {Value("boolean", <<>>, b, None) : b \in {0, 1}}
    \cup {NullValue, UndefinedValue}

\* what a phone property of an object holds
PropertyValues ==
    {StringValue(<<"1", "-", "2">>), StringValue(<<" ">>), NumberValue(12345),
     NullValue, UndefinedValue}

Objects ==
    {Value(k, <<>>, 0, p) :
        k \in {"object", "bareObject"},
        p \in {None} \cup {Some(v) : v \in PropertyValues}}

PhoneInputs == Primitives \cup Objects

\* an options object with no property set: {}
NoOptions ==
    [maskChar |-> None, showFirst |-> None, showLast |-> None,
     showStart |-> None, showEnd |-> None, visibleRanges |-> None,
     preserveFormat |-> None, customMask |-> None]

ShowVals == {None} \cup {Some(n) : n \in -1..MaxShow}
AliasVals == {None, Some(1)}
Modes == {Some(TRUE), Some(FALSE)}
Callbacks ==
    {"keep", "evenStar", "lastBang", "drop", "twice", "fault", "faultSecond"}
MaskChars ==
    {Some(<<"#">>), Some(<<"1">>), Some(<<"+">>), Some(<<"-">>), Some(<<" ">>),
     Some(<<>>), Some(<<"#", "#">>)}
RangeLists ==
    {<<>>, <<<<0, 0>>>>, <<<<1, MaxShow>>>>, <<<<0, 1>>, <<1, MaxShow>>>>,
     <<<<MaxShow, 0>>>>}

\* option objects that set the counts and their aliases
AliasOptions ==
    {[NoOptions EXCEPT !.showFirst = a, !.showStart = b, !.showLast = c,
                       !.showEnd = d, !.preserveFormat = m] :
        a \in ShowVals, b \in AliasVals, c \in ShowVals, d \in AliasVals,
        m \in Modes}

\* option objects that leave preserveFormat out
DefaultModeOptions ==
    {[NoOptions EXCEPT !.showFirst = a, !.showLast = c, !.showEnd = d] :
        a \in {None, Some(1)}, c \in {None, Some(0)}, d \in AliasVals}

\* option objects that set maskChar
MaskCharOptions ==
    {[NoOptions EXCEPT !.maskChar = c, !.showFirst = a, !.showLast = b,
                       !.preserveFormat = m] :
        c \in MaskChars, a \in {None, Some(1)}, b \in {Some(0), Some(1)},
        m \in Modes}

\* option objects that set visibleRanges
RangeOptions ==
    {[NoOptions EXCEPT !.visibleRanges = Some(r), !.showFirst = a,
                       !.showLast = b, !.preserveFormat = m] :
        r \in RangeLists, a \in {None, Some(1)}, b \in {None, Some(0)},
        m \in Modes}

\* what else an options object with a customMask sets
CustomExtras ==
    {NoOptions,
     [NoOptions EXCEPT !.maskChar = Some(<<"#">>)],
     [NoOptions EXCEPT !.showFirst = Some(MaxShow)],
     [NoOptions EXCEPT !.showStart = Some(1), !.showEnd = Some(MaxShow)],
     [NoOptions EXCEPT !.showLast = Some(0)],
     [NoOptions EXCEPT !.visibleRanges = Some(<<<<0, 0>>>>)],
     [NoOptions EXCEPT !.maskChar = Some(<<"1">>), !.showFirst = Some(1),
                       !.showLast = Some(MaxShow),
                       !.visibleRanges = Some(<<>>)]}

\* option objects that set customMask
CustomOptions ==
    {[e EXCEPT !.customMask = Some(f), !.preserveFormat = m] :
        e \in CustomExtras, f \in Callbacks, m \in Modes}

\* the second argument of a call: absent, or an options object
OptionSets ==
    {None} \cup {Some(o) : o \in AliasOptions \cup DefaultModeOptions
                              \cup MaskCharOptions \cup RangeOptions
                              \cup CustomOptions}

----------------------------------------------------------------------------
(* One call of maskPhone *)

NoCalls == <<>>
NoCounters == <<>>

Init ==
    /\ phone \in PhoneInputs
    /\ options \in OptionSets
    /\ pc = "idle"
    /\ phoneStr = <<>>
    /\ normalizedOpts = None
    /\ result = Returned(<<>>)
    /\ calls = NoCalls
    /\ digitIndex = NoCounters

\* maskPhone(phone, options), from entry to return or raise
MaskPhone ==
    /\ pc = "idle"
    /\ pc' = "done"
    /\ LET n == normalizePhone(phone)
       IN  /\ phoneStr' = n.value
           /\ normalizedOpts' = IF n.thrown \/ n.value = <<>> THEN None
                                ELSE Some(normalizeOptions(options))
    /\ result' = maskPhone(phone, options)
    /\ UNCHANGED <<phone, options, calls, digitIndex>>

Next == MaskPhone

Spec == Init /\ [][Next]_vars

----------------------------------------------------------------------------
(* Several calls of maskPhone in flight.  Each context runs one call at a  *)
(* time; a step of a call is one invocation of the callback its masker     *)
(* gives to map, and the steps of different calls interleave freely (a     *)
(* call made from inside a customMask callback is the interleaving in      *)
(* which the inner call runs from entry to return between two steps of the *)
(* outer one).                                                             *)

Contexts == {"outer", "inner"}

\* the inputs and options of the interleaved calls
ConcurrentInputs ==
    {StringValue(s) : s \in [1..MaxLen -> {"1", "-"}]}
    \cup {StringValue(<<"+", "1", "2">>), NullValue}

ConcurrentOptions ==
    {None,
     Some([NoOptions EXCEPT !.preserveFormat = Some(TRUE), !.showLast = Some(1)]),
     Some([NoOptions EXCEPT !.preserveFormat = Some(TRUE), !.showFirst = Some(1),
                            !.showLast = Some(0)]),
     Some([NoOptions EXCEPT !.preserveFormat = Some(TRUE),
                            !.visibleRanges = Some(<<<<1, 1>>>>)]),
     Some([NoOptions EXCEPT !.showLast = Some(1)]),
     Some([NoOptions EXCEPT !.preserveFormat = Some(TRUE),
                            !.customMask = Some("evenStar")])}

\* a context that runs no call
IdleFrame ==
    [pc |-> "idle", phone |-> NullValue, options |-> None,
     opts |-> normalizeOptions(None), format |-> FALSE, str |-> <<>>,
     index |-> 0, out |-> <<>>, result |-> Returned(<<>>),
     overlapped |-> FALSE]

\* every call uses the one counter of the module
counterCellShared(c) == "outer"

\* the cell that holds the digit counter of the call of context c:
\* `let digitIndex = -1` is a local of maskWithFormat, one per call
counterCell(c) == c

InitConcurrent ==
    /\ phone = NullValue
    /\ options = None
    /\ pc = "idle"
    /\ phoneStr = <<>>
    /\ normalizedOpts = None
    /\ result = Returned(<<>>)
    /\ calls = [c \in Contexts |-> IdleFrame]
    /\ digitIndex = [c \in Contexts |-> -1]

\* context c calls maskPhone(p, o): normalization, the empty check, option
\* resolution and the bypass; the call returns at once or enters a masker
Enter(c) ==
    /\ calls[c].pc = "idle"
    /\ \E p \in ConcurrentInputs, o \in ConcurrentOptions :
          LET n == normalizePhone(p)
              r == normalizeOptions(o)
              early == n.thrown \/ n.value = <<>> \/ bypass(n.value, o, r)
              f == [IdleFrame EXCEPT !.phone = p, !.options = o, !.opts = r]
          IN  IF early
              THEN /\ calls' = [calls EXCEPT ![c] =
                        [f EXCEPT !.pc = "done",
                                  !.result = IF n.thrown THEN Thrown
                                             ELSE Returned(n.value)]]
                   /\ UNCHANGED digitIndex
              ELSE /\ calls' = [calls EXCEPT ![c] =
                        [f EXCEPT !.pc = "masking",
                                  !.format = r.preserveFormat,
                                  !.str = mapInput(n.value, r)]]
                   /\ digitIndex' =
                        IF r.preserveFormat
                        THEN [digitIndex EXCEPT ![counterCell(c)] = -1]
                        ELSE digitIndex
    /\ UNCHANGED <<phone, options, pc, phoneStr, normalizedOpts, result>>

\* the masker of context c handles its next character
Step(c) ==
    /\ calls[c].pc = "masking"
    /\ calls[c].index < Len(calls[c].str)
    /\ LET f == calls[c]
           d == digitIndex[counterCell(c)]
           r == IF f.format THEN formatChar(f.str, f.opts, f.index, d)
                ELSE plainChar(f.str, f.opts, f.index)
           others == {x \in Contexts \ {c} : calls[x].pc = "masking"}
       IN  /\ calls' =
                [x \in Contexts |->
                    IF x = c
                    THEN IF r.thrown
                         THEN [f EXCEPT !.pc = "done", !.result = r]
                         ELSE [f EXCEPT !.index = f.index + 1,
                                        !.out = f.out \o r.value,
                                        !.overlapped = f.overlapped \/ others # {}]
                    ELSE IF x \in others
                         THEN [calls[x] EXCEPT !.overlapped = TRUE]
                         ELSE calls[x]]
           /\ digitIndex' =
                IF f.format
                THEN [digitIndex EXCEPT ![counterCell(c)] =
                        nextDigitIndex(f.str, f.opts, f.index, d)]
                ELSE digitIndex
    /\ UNCHANGED <<phone, options, pc, phoneStr, normalizedOpts, result>>

\* the masker of context c has handled every character: join and return
Return(c) ==
    /\ calls[c].pc = "masking"
    /\ calls[c].index = Len(calls[c].str)
    /\ calls' = [calls EXCEPT ![c].pc = "done",
                              ![c].result = Returned(calls[c].out)]
    /\ UNCHANGED <<phone, options, pc, phoneStr, normalizedOpts, result, digitIndex>>

\* the caller of context c has its result; the context is free for a next call
Leave(c) ==
    /\ calls[c].pc = "done"
    /\ calls' = [calls EXCEPT ![c] = IdleFrame]
    /\ UNCHANGED <<phone, options, pc, phoneStr, normalizedOpts, result, digitIndex>>

NextConcurrent ==
    \E c \in Contexts : Enter(c) \/ Step(c) \/ Return(c) \/ Leave(c)

SpecConcurrent == InitConcurrent /\ [][NextConcurrent]_vars

----------------------------------------------------------------------------
(* One call of maskPhone, one invocation of the callback of map at a time. *)
(* calls is the record of these invocations: the character and the index   *)
(* map passed, the string the masker maps over (the third argument of      *)
(* customMask when it is set) and what the invocation returned or raised.  *)

CallbackInputs ==
    {StringValue(s) : s \in StringsUpTo(MaxLen)} \cup {NullValue}

CallbackOptions ==
    {None,
     Some([NoOptions EXCEPT !.showLast = Some(1)]),
     Some([NoOptions EXCEPT !.preserveFormat = Some(TRUE), !.showLast = Some(1)])}
    \cup {Some(o) : o \in CustomOptions}

InitCallback ==
    /\ phone \in CallbackInputs
    /\ options \in CallbackOptions
    /\ pc = "idle"
    /\ phoneStr = <<>>
    /\ normalizedOpts = None
    /\ result = Returned(<<>>)
    /\ calls = <<>>
    /\ digitIndex = -1

\* maskPhone up to the choice of the masker: normalization, the empty check,
\* option resolution and the bypass
Begin ==
    /\ pc = "idle"
    /\ LET n == normalizePhone(phone)
           r == normalizeOptions(options)
           early == n.thrown \/ n.value = <<>> \/ bypass(n.value, options, r)
       IN  /\ phoneStr' = n.value
           /\ normalizedOpts' = IF n.thrown \/ n.value = <<>> THEN None ELSE Some(r)
           /\ pc' = IF early THEN "done" ELSE "masking"
           /\ result' = IF n.thrown THEN n
                        ELSE IF early THEN Returned(n.value)
                        ELSE result
    /\ digitIndex' = -1
    /\ UNCHANGED <<phone, options, calls>>

\* map invokes its callback on the next character
Invoke ==
    /\ pc = "masking"
    /\ LET o == normalizedOpts[1]
           str == mapInput(phoneStr, o)
           index == Len(calls)
           r == IF o.preserveFormat THEN formatChar(str, o, index, digitIndex)
                ELSE plainChar(str, o, index)
       IN  /\ index < Len(str)
           /\ calls' = Append(calls, [char |-> str[index + 1], index |-> index,
                                      phone |-> str, returned |-> r])
           /\ pc' = afterCallback(r)
           /\ result' = IF pc' = "done" THEN r ELSE result
           /\ digitIndex' = IF o.preserveFormat
                            THEN nextDigitIndex(str, o, index, digitIndex)
                            ELSE digitIndex
    /\ UNCHANGED <<phone, options, phoneStr, normalizedOpts>>

\* map is through: join("") and return
Finish ==
    /\ pc = "masking"
    /\ Len(calls) = Len(mapInput(phoneStr, normalizedOpts[1]))
    /\ pc' = "done"
    /\ result' = Returned(Concat([k \in 1..Len(calls) |-> calls[k].returned.value]))
    /\ UNCHANGED <<phone, options, phoneStr, normalizedOpts, calls, digitIndex>>

NextCallback == Begin \/ Invoke \/ Finish

SpecCallback == InitCallback /\ [][NextCallback]_vars

----------------------------------------------------------------------------
(* What the claims speak of *)

Done == pc = "done"

\* the options object of the call, {} when the argument is absent
Raw == IF options = None THEN NoOptions ELSE options[1]

\* the resolved counts, mode and mask character as the specification states them
ResolvedShowFirst(o) ==
    IF o.showFirst # None THEN o.showFirst[1]
    ELSE IF o.showStart # None THEN o.showStart[1]
    ELSE 0

ResolvedShowLast(o) ==
    IF o.showLast # None THEN o.showLast[1]
    ELSE IF o.showEnd # None THEN o.showEnd[1]
    ELSE 4

ResolvedPreserveFormat(o) ==
    IF o.preserveFormat # None THEN o.preserveFormat[1] ELSE FALSE

ResolvedMaskChar(o) == IF o.maskChar # None THEN o.maskChar[1] ELSE <<"*">>

\* what is left of s after deleting everything except decimal digits and '+'
DigitsAndPlus(s) == SelectSeq(s, LAMBDA c : c \in Digits \cup {"+"})

Chars(s) == {s[i] : i \in 1..Len(s)}

\* the call got past normalization with a string
Normalized == Done /\ ~normalizePhone(phone).thrown

\* neither customMask nor visibleRanges is set and the stripped input is no
\* longer than showFirst + showLast
BypassCase(s, o) ==
    /\ o.customMask = None
    /\ o.visibleRanges = None
    /\ Len(DigitsAndPlus(s)) <= ResolvedShowFirst(o) + ResolvedShowLast(o)

\* every character the masker handles is replaced by exactly one character:
\* maskChar is one character long, or customMask returns one character per call
OneForOne(s, o) ==
    IF o.customMask = None THEN Len(ResolvedMaskChar(o)) = 1
    ELSE \A i \in 1..Len(s) :
            LET r == customMask(o.customMask[1], s[i], i - 1, s)
            IN  ~r.thrown /\ Len(r.value) = 1

----------------------------------------------------------------------------
(* C1 *)

\* C1: when neither customMask nor visibleRanges is set and the input has at
\* most showFirst + showLast digits and '+' signs, maskPhone returns the
\* normalized input unchanged, whatever preserveFormat is.
C1_BypassLaw ==
    (Normalized /\ BypassCase(phoneStr, Raw)) => result = Returned(phoneStr)

\* the bypass returned a string with a separator and a letter in digit-only mode
C1_Witness ==
    /\ Normalized /\ BypassCase(phoneStr, Raw)
    /\ ~ResolvedPreserveFormat(Raw)
    /\ "-" \in Chars(phoneStr) /\ "a" \in Chars(phoneStr) /\ "1" \in Chars(phoneStr)
    /\ result = Returned(phoneStr)

----------------------------------------------------------------------------
(* C2 *)

\* C2 as stated: with preserveFormat false or absent and a non-empty input,
\* the output is as long as the input stripped to digits and '+' (read with
\* maskChar and the results of customMask one character long, as the data
\* model types them).
C2_AsStated ==
    (Normalized /\ phoneStr # <<>> /\ ~result.thrown
        /\ ~ResolvedPreserveFormat(Raw)
        /\ OneForOne(DigitsAndPlus(phoneStr), Raw))
    => Len(result.value) = Len(DigitsAndPlus(phoneStr))

\* C2 (amended): with preserveFormat false or absent, a non-empty input, the
\* bypass not taken and one output character per masked character, the output
\* is as long as the input stripped to digits and '+'.
C2_StrippedLength ==
    (Normalized /\ phoneStr # <<>> /\ ~result.thrown
        /\ ~ResolvedPreserveFormat(Raw)
        /\ ~BypassCase(phoneStr, Raw)
        /\ OneForOne(DigitsAndPlus(phoneStr), Raw))
    => Len(result.value) = Len(DigitsAndPlus(phoneStr))

\* digit-only masking dropped a separator, kept a '+' and masked a digit
C2_Witness ==
    /\ Normalized /\ ~result.thrown /\ ~ResolvedPreserveFormat(Raw)
    /\ ~BypassCase(phoneStr, Raw)
    /\ Raw.customMask = None
    /\ OneForOne(DigitsAndPlus(phoneStr), Raw)
    /\ phoneStr = <<"+", "-", "1">>
    /\ result.value = <<"+", "*">>

----------------------------------------------------------------------------
(* C3 *)

\* C3 as stated: with preserveFormat true the output has as many characters
\* as the input string (read with maskChar and the results of customMask one
\* character long, as the data model types them).
C3_AsStated ==
    (Done /\ phone.kind = "string" /\ ~result.thrown
        /\ ResolvedPreserveFormat(Raw)
        /\ OneForOne(phoneStr, Raw))
    => Len(result.value) = Len(phone.str)

\* C3 (amended): with preserveFormat true and one output character per masked
\* character, the output has as many characters as the normalized (trimmed)
\* input string.
C3_PreservedLength ==
    (Normalized /\ ~result.thrown /\ ResolvedPreserveFormat(Raw)
        /\ OneForOne(phoneStr, Raw))
    => Len(result.value) = Len(phoneStr)

\* format-preserving masking replaced a digit and kept a separator
C3_Witness ==
    /\ Normalized /\ ~result.thrown /\ ResolvedPreserveFormat(Raw)
    /\ OneForOne(phoneStr, Raw)
    /\ ~BypassCase(phoneStr, Raw)
    /\ Raw.customMask = None
    /\ phone.str = <<" ", "1", "-">>
    /\ result.value = <<"*", "-">>

----------------------------------------------------------------------------
(* C4 *)

\* C4: two option sets that carry the same customMask and the same
\* preserveFormat give the same result, whatever their maskChar, showFirst,
\* showStart, showLast, showEnd and visibleRanges are.
C4_CustomMaskDecides ==
    (Done /\ Raw.customMask # None)
    => \A e \in CustomExtras :
          maskPhone(phone, Some([e EXCEPT !.customMask = Raw.customMask,
                                          !.preserveFormat = Raw.preserveFormat]))
            = result

\* customMask changed an input short enough for the bypass
C4_Witness ==
    /\ Normalized /\ Raw.customMask = Some("lastBang")
    /\ Raw.showFirst = Some(MaxShow)
    /\ Len(DigitsAndPlus(phoneStr)) <= ResolvedShowFirst(Raw) + ResolvedShowLast(Raw)
    /\ phoneStr = <<"1", "-", "2">>
    /\ result.value \in {<<"1", "-", "!">>, <<"1", "!">>}

----------------------------------------------------------------------------
(* C5 *)

\* C5: a negative showFirst (resp. showLast) gives the same result as 0 in
\* its place, all other options equal.
C5_NegativeAsZero ==
    (Done /\ options # None)
    => /\ (Raw.showFirst # None /\ ResolvedShowFirst(Raw) < 0)
            => maskPhone(phone, Some([Raw EXCEPT !.showFirst = Some(0)])) = result
       /\ (Raw.showLast # None /\ ResolvedShowLast(Raw) < 0)
            => maskPhone(phone, Some([Raw EXCEPT !.showLast = Some(0)])) = result

----------------------------------------------------------------------------
(* C6 *)

\* the input is null, undefined, the empty string or whitespace only
EmptyInput(p) ==
    \/ p.kind \in {"null", "undefined"}
    \/ (p.kind = "string" /\ \A i \in 1..Len(p.str) : p.str[i] \in WhiteSpace)

\* C6: maskPhone returns the empty string for null, undefined, the empty
\* string and whitespace-only strings, for every option set.
C6_EmptyInput ==
    (Done /\ EmptyInput(phone)) => result = Returned(<<>>)

\* a whitespace-only string was masked with a customMask that raises
C6_Witness ==
    /\ Done /\ phone.kind = "string" /\ phone.str = <<" ", " ">>
    /\ Raw.customMask = Some("fault")
    /\ result = Returned(<<>>)

----------------------------------------------------------------------------
(* C7 *)

\* the values an alias is changed to: left out, negative, the largest count
OtherAliases == {None, Some(-1), Some(MaxShow)}

\* C7: the resolved options are the named option, else its alias, else the
\* default; an alias given beside its name does not affect the result; an
\* absent options argument gives the same result as {}.
C7_OptionResolution ==
    (Done /\ normalizedOpts # None)
    => /\ normalizedOpts[1].showFirst = ResolvedShowFirst(Raw)
       /\ normalizedOpts[1].showLast = ResolvedShowLast(Raw)
       /\ normalizedOpts[1].maskChar = ResolvedMaskChar(Raw)
       /\ normalizedOpts[1].preserveFormat = ResolvedPreserveFormat(Raw)
       /\ Raw.showFirst # None =>
            \A a \in OtherAliases :
                maskPhone(phone, Some([Raw EXCEPT !.showStart = a])) = result
       /\ Raw.showLast # None =>
            \A a \in OtherAliases :
                maskPhone(phone, Some([Raw EXCEPT !.showEnd = a])) = result
       /\ options = None => maskPhone(phone, Some(NoOptions)) = result
       /\ options = Some(NoOptions) => maskPhone(phone, None) = result

\* showFirst and showStart were both given, and the alias alone would have
\* given another result
C7_Witness ==
    /\ Done /\ normalizedOpts # None
    /\ Raw.showFirst = Some(0) /\ Raw.showStart = Some(1)
    /\ Raw.showLast = Some(1)
    /\ phoneStr = <<"1", "2", "1">>
    /\ result.value = <<"*", "*", "1">>
    /\ maskPhone(phone, Some([Raw EXCEPT !.showFirst = None])).value
         = <<"1", "*", "1">>

----------------------------------------------------------------------------
(* C8 *)

\* C8: without a customMask, maskPhone returns a string and does not raise,
\* for every input value.
C8_NeverRaises ==
    (Done /\ Raw.customMask = None) => ~result.thrown

----------------------------------------------------------------------------
(* C10 *)

\* masking the result of the call once more, with the same options
Again == maskPhone(StringValue(result.value), options)

\* the first call masked a character in digit-only mode with a mask character
\* that is neither a digit nor '+', and its output is too long for the bypass
RemaskCase ==
    /\ Normalized /\ ~result.thrown
    /\ Raw.customMask = None
    /\ ~ResolvedPreserveFormat(Raw)
    /\ Len(ResolvedMaskChar(Raw)) = 1
    /\ ResolvedMaskChar(Raw)[1] \notin Digits \cup {"+"}
    /\ ~BypassCase(phoneStr, Raw)
    /\ ResolvedMaskChar(Raw)[1] \in Chars(result.value)
    /\ ~BypassCase(result.value, Raw)

\* C10: idempotence does not hold in general: in the case above, masking the
\* output again gives a shorter string than the output.
C10_NotIdempotent ==
    RemaskCase => (~Again.thrown /\ Len(Again.value) < Len(result.value))

\* maskPhone("+12", {showEnd: 1}) is "+*2" and maskPhone("+*2", {showEnd: 1})
\* is "+2"
C10_Witness ==
    /\ RemaskCase
    /\ phoneStr = <<"+", "1", "2">>
    /\ Raw.visibleRanges = None
    /\ result.value = <<"+", "*", "2">>
    /\ Again.value = <<"+", "2">>

----------------------------------------------------------------------------
(* C9 *)

\* C9: in any interleaving of calls, the result of each call is the result of
\* that call run alone on its own input and options.
C9_Stateless ==
    \A c \in Contexts :
        calls[c].pc = "done"
        => calls[c].result = maskPhone(calls[c].phone, calls[c].options)

\* two format-preserving calls without customMask ran interleaved, and the
\* outer one masked a digit and returned
C9_Witness ==
    /\ calls["outer"].pc = "done" /\ calls["outer"].overlapped
    /\ calls["outer"].format /\ calls["outer"].opts.customMask = None
    /\ calls["outer"].phone.str = <<"1", "-", "1">>
    /\ calls["outer"].result.value = <<"*", "-", "1">>
    /\ calls["inner"].pc = "masking" /\ calls["inner"].overlapped
    /\ calls["inner"].format /\ calls["inner"].opts.customMask = None
    /\ calls["inner"].index = 2 /\ digitIndex["inner"] = 1

----------------------------------------------------------------------------
(* C11 *)

\* the call took the digit-only masker, without a customMask
DigitOnlyMasked ==
    /\ Normalized /\ phoneStr # <<>> /\ ~result.thrown
    /\ Raw.customMask = None
    /\ ~ResolvedPreserveFormat(Raw)
    /\ ~BypassCase(phoneStr, Raw)

\* C11: in digit-only mode only the first '+' of an input with several '+'
\* is kept: the output holds at most one '+'.
C11_OnlyFirstPlus ==
    (DigitOnlyMasked /\ "+" \notin Chars(ResolvedMaskChar(Raw)))
    => Len(SelectSeq(result.value, LAMBDA c : c = "+")) <= 1

----------------------------------------------------------------------------
(* C12 *)

\* the showFirst / showLast window over a string of length n
InWindow(i, n, o) ==
    \/ (ResolvedShowFirst(o) > 0 /\ i < ResolvedShowFirst(o))
    \/ (ResolvedShowLast(o) > 0 /\ i >= n - ResolvedShowLast(o))

----------------------------------------------------------------------------
(* C13 *)

\* the formatting characters of format-preserving mode
Separators == WhiteSpace \cup {"-", "(", ")", ".", "+"}

\* i lies in at least one of the ranges, bounds inclusive
InRanges(i, r) == \E k \in 1..Len(r) : r[k][1] <= i /\ i <= r[k][2]

\* the number of maskable characters of s before position p (1-based)
Ordinal(s, p) ==
    Len(SelectSeq(SubSeq(s, 1, p - 1), LAMBDA c : c \notin Separators))

\* visibleRanges is a non-empty list and customMask is absent
RangesCase ==
    /\ Normalized /\ phoneStr # <<>> /\ ~result.thrown
    /\ Raw.customMask = None
    /\ Raw.visibleRanges # None /\ Raw.visibleRanges[1] # <<>>

\* the counts and aliases a call with ranges is compared with
OtherCounts == {None, Some(-1), Some(MaxShow)}

\* C13: with a non-empty visibleRanges and no customMask, a maskable
\* character is kept iff its index lies in at least one range; the bypass is
\* never taken, and showFirst, showStart, showLast and showEnd do not matter.
C13_VisibleRanges ==
    RangesCase
    => LET r == Raw.visibleRanges[1]
           mc == ResolvedMaskChar(Raw)
           s == DigitsAndPlus(phoneStr)
       IN  /\ ~ResolvedPreserveFormat(Raw) =>
                result.value =
                    Concat([i \in 1..Len(s) |->
                              IF s[i] = "+" \/ InRanges(i - 1, r)
                              THEN <<s[i]>> ELSE mc])
           /\ ResolvedPreserveFormat(Raw) =>
                result.value =
                    Concat([p \in 1..Len(phoneStr) |->
                              IF \/ phoneStr[p] \in Separators
                                 \/ InRanges(Ordinal(phoneStr, p), r)
                              THEN <<phoneStr[p]>> ELSE mc])
           /\ \A a \in OtherCounts, b \in OtherCounts :
                maskPhone(phone, Some([Raw EXCEPT !.showFirst = a, !.showEnd = a,
                                                  !.showLast = b, !.showStart = b]))
                  = result

\* maskPhone("121", {visibleRanges: [[0, 1], [1, 2]], showLast: 0}) keeps
\* every character: index 0 lies in the first range only, index 2 in the
\* second only
C13_Witness ==
    /\ RangesCase
    /\ Len(Raw.visibleRanges[1]) = 2
    /\ phoneStr = <<"1", "2", "1">>
    /\ result.value = <<"1", "2", "1">>
    /\ ~BypassCase(phoneStr, [Raw EXCEPT !.visibleRanges = None])

\* maskPhone("1", {visibleRanges: [[1, 2]]}) is "*": an input short enough
\* for the bypass is masked
C13_ShortInputMasked ==
    /\ RangesCase
    /\ phoneStr = <<"1">>
    /\ BypassCase(phoneStr, [Raw EXCEPT !.visibleRanges = None])
    /\ result.value = <<"*">>

----------------------------------------------------------------------------
(* C14 *)

\* the format-preserving masking path without customMask
FormatMasked ==
    /\ Normalized /\ phoneStr # <<>> /\ ~result.thrown
    /\ Raw.customMask = None
    /\ ResolvedPreserveFormat(Raw)
    /\ ~BypassCase(phoneStr, Raw)

\* the number of decimal digits of s before position p (1-based)
DigitOrdinal(s, p) ==
    Len(SelectSeq(SubSeq(s, 1, p - 1), LAMBDA c : c \in Digits))

\* index i of n is visible under the raw options o: the ranges when
\* supplied, the showFirst/showLast window otherwise
VisibleAt(i, n, o) ==
    IF o.visibleRanges # None /\ o.visibleRanges[1] # <<>>
    THEN InRanges(i, o.visibleRanges[1])
    ELSE InWindow(i, n, o)

\* C14: with preserveFormat true and no customMask the k-th decimal digit of
\* the input (0-based) is tested with index k against the number of decimal
\* digits of the input, whatever other characters the input contains.
C14_DigitCounter ==
    (FormatMasked /\ Len(ResolvedMaskChar(Raw)) = 1)
    => \A p \in 1..Len(phoneStr) :
          phoneStr[p] \in Digits
          => result.value[p] =
                IF VisibleAt(DigitOrdinal(phoneStr, p),
                             Len(SelectSeq(phoneStr, LAMBDA c : c \in Digits)),
                             Raw)
                THEN phoneStr[p]
                ELSE ResolvedMaskChar(Raw)[1]

----------------------------------------------------------------------------
(* C15 *)

\* every separator of s stands unchanged at the same position of t
SeparatorsInPlace(s, t) ==
    \A p \in 1..Len(s) :
        s[p] \in Separators => (p <= Len(t) /\ t[p] = s[p])

\* C15 as stated: with preserveFormat true and no customMask every separator
\* of the input string stands unchanged at the same position of the output,
\* for every maskChar, showFirst, showLast and visibleRanges.
C15_AsStated ==
    (Done /\ phone.kind = "string" /\ ~result.thrown
        /\ ResolvedPreserveFormat(Raw) /\ Raw.customMask = None)
    => SeparatorsInPlace(phone.str, result.value)

\* C15 (amended): with preserveFormat true, no customMask and a maskChar one
\* character long, every separator of the normalized (trimmed) input stands
\* unchanged at the same position of the output, which is as long as the
\* normalized input, on the masking path and on the bypass path alike.
C15_SeparatorFrame ==
    (Normalized /\ ~result.thrown
        /\ ResolvedPreserveFormat(Raw) /\ Raw.customMask = None
        /\ Len(ResolvedMaskChar(Raw)) = 1)
    => /\ Len(result.value) = Len(phoneStr)
       /\ SeparatorsInPlace(phoneStr, result.value)

\* maskPhone("+1-", {preserveFormat: true, showLast: 0}) is "+*-"
C15_Witness ==
    /\ FormatMasked
    /\ Len(ResolvedMaskChar(Raw)) = 1
    /\ phoneStr = <<"+", "1", "-">>
    /\ result.value = <<"+", ResolvedMaskChar(Raw)[1], "-">>
    /\ ResolvedMaskChar(Raw) # <<"1">>

----------------------------------------------------------------------------
(* C16 *)

\* the number of plus signs of s
PlusCount(s) == Len(SelectSeq(s, LAMBDA c : c = "+"))

\* digit-only mode without customMask, on the masking path or the bypass
DigitOnlyCase ==
    /\ Normalized /\ ~result.thrown
    /\ Raw.customMask = None
    /\ ~ResolvedPreserveFormat(Raw)

----------------------------------------------------------------------------
(* C17 *)

\* digit-only masking path with a maskChar that is one character, not a digit
DigitOnlyMarked ==
    /\ DigitOnlyMasked
    /\ Len(ResolvedMaskChar(Raw)) = 1
    /\ ResolvedMaskChar(Raw)[1] \notin Digits

\* the number of digits of s
DigitCount(s) == Len(SelectSeq(s, LAMBDA c : c \in Digits))

Min(a, b) == IF a <= b THEN a ELSE b

\* C17: in digit-only mode a digit is tested with its index in the stripped
\* string against the length of the stripped string, plus signs counted in
\* both; with one leading plus sign, showFirst = k >= 1 and no showLast the
\* output shows k - 1 digits (all of them when there are fewer).
C17_PlusIndexing ==
    DigitOnlyMarked
    => LET s == DigitsAndPlus(phoneStr)
       IN  /\ Len(result.value) = Len(s)
           /\ \A i \in 1..Len(s) :
                s[i] \in Digits
                => ((result.value[i] = s[i]) <=> VisibleAt(i - 1, Len(s), Raw))
           /\ (/\ Raw.visibleRanges = None
               /\ ResolvedShowLast(Raw) <= 0
               /\ ResolvedShowFirst(Raw) >= 1
               /\ s # <<>> /\ s[1] = "+" /\ PlusCount(s) = 1)
              => DigitCount(result.value)
                    = Min(ResolvedShowFirst(Raw) - 1, DigitCount(s))

\* maskPhone("+12", {showFirst: 2, showLast: 0, maskChar: "#"}) is "+1#":
\* showFirst 2 shows one digit
C17_Witness ==
    /\ DigitOnlyMarked /\ Raw.visibleRanges = None
    /\ phoneStr = <<"+", "1", "2">>
    /\ ResolvedShowFirst(Raw) = 2 /\ ResolvedShowLast(Raw) <= 0
    /\ result.value[1] = "+" /\ result.value[2] = "1"
    /\ result.value[3] = ResolvedMaskChar(Raw)[1]

\* maskPhone("+12", {visibleRanges: [[1, 2]]}) is "+12": index 1 addresses
\* the first digit, which is digit 0
C17_RangesWitness ==
    /\ DigitOnlyMarked
    /\ Raw.visibleRanges = Some(<<<<1, MaxShow>>>>)
    /\ phoneStr = <<"+", "1", "2">>
    /\ result.value = <<"+", "1", "2">>

----------------------------------------------------------------------------
(* C18 *)

\* C18: an object input that carries a phone property is normalized as the
\* value of that property is, whatever the value (string, number, null,
\* undefined), so maskPhone({phone: v}, o) equals maskPhone(v, o).
C18_ObjectAsProperty ==
    (Done /\ IsObject(phone) /\ phone.prop # None)
    => /\ normalizePhone(phone) = normalizePhone(phone.prop[1])
       /\ result = maskPhone(phone.prop[1], options)

----------------------------------------------------------------------------
(* C19 *)

\* the string customMask is to be shown: the normalized input with its
\* separators when preserveFormat is true, its digits and plus signs otherwise
ShownString ==
    IF ResolvedPreserveFormat(Raw) THEN phoneStr ELSE DigitsAndPlus(phoneStr)

\* a call with customMask set on a non-empty normalized input is under way
\* or has ended
CustomCall == pc # "idle" /\ Raw.customMask # None /\ phoneStr # <<>>

----------------------------------------------------------------------------
(* C20 *)

\* C20: when customMask raises a fault at some character, maskPhone raises
\* that same fault, returns no partial result and makes no later invocation.
C20_FaultPropagates ==
    CustomCall
    => /\ \A k \in 1..Len(calls) :
            calls[k].returned.thrown
            => /\ k = Len(calls)
               /\ pc = "done"
               /\ result = calls[k].returned
       /\ (pc = "done" /\ result.thrown)
            => /\ calls # <<>>
               /\ calls[Len(calls)].returned = result
               /\ result = maskPhone(phone, options)

\* maskPhone("1a2", {customMask: faultSecond, preserveFormat: true}) raised
\* the fault of the second invocation; the third character was not visited
C20_Witness ==
    /\ CustomCall /\ pc = "done"
    /\ Raw.customMask = Some("faultSecond")
    /\ ResolvedPreserveFormat(Raw)
    /\ phoneStr = <<"1", "a", "2">>
    /\ Len(calls) = 2
    /\ ~calls[1].returned.thrown
    /\ result = Raise(<<"fault", "a">>)

----------------------------------------------------------------------------
(* C21 *)

\* a call without customMask and visibleRanges, with non-negative counts
WindowCase ==
    /\ Normalized /\ ~result.thrown
    /\ Raw.customMask = None /\ Raw.visibleRanges = None
    /\ ResolvedShowFirst(Raw) >= 0 /\ ResolvedShowLast(Raw) >= 0

\* C21: with non-negative showFirst and showLast, a maskChar without digits,
\* no visibleRanges and no customMask, the output shows at most
\* showFirst + showLast decimal digits of the input, in both modes and for
\* inputs with letters and symbols too.
C21_DisclosureBound ==
    (WindowCase /\ Chars(ResolvedMaskChar(Raw)) \cap Digits = {})
    => DigitCount(result.value) <= ResolvedShowFirst(Raw) + ResolvedShowLast(Raw)

----------------------------------------------------------------------------
(* C22 *)

\* C22: a call whose visibleRanges is the empty list returns what the same
\* call without visibleRanges returns, for every input and every other option.
C22_EmptyRanges ==
    (Done /\ Raw.visibleRanges = Some(<<>>))
    => result = maskPhone(phone, Some([Raw EXCEPT !.visibleRanges = None]))

----------------------------------------------------------------------------
(* C23 *)

\* the separators an input of C23 may hold: the formatting characters
\* without the plus sign
PlainSeparators == WhiteSpace \cup {"-", "(", ")", "."}

\* s with its separators deleted
WithoutSeparators(s) == SelectSeq(s, LAMBDA c : c \notin PlainSeparators)

\* a preserveFormat call without customMask, past the bypass, on an input of
\* digits and separators only, with no separator in maskChar
AgreementCase ==
    /\ FormatMasked
    /\ Chars(phoneStr) \subseteq Digits \cup PlainSeparators
    /\ Chars(ResolvedMaskChar(Raw)) \cap PlainSeparators = {}

\* C23: on an input of digits and separators only, without customMask, with no
\* separator in maskChar and the bypass not taken, the preserveFormat true
\* output with its separators deleted is the preserveFormat false output.
C23_ModeAgreement ==
    AgreementCase
    => Returned(WithoutSeparators(result.value))
         = maskPhone(phone, Some([Raw EXCEPT !.preserveFormat = Some(FALSE)]))

\* maskPhone("1-2", {preserveFormat: true, showLast: 1}) is "*-2" and
\* maskPhone("1-2", {showLast: 1}) is "*2"
C23_Witness ==
    /\ AgreementCase
    /\ phoneStr = <<"1", "-", "2">>
    /\ result.value = <<"*", "-", "2">>
    /\ maskPhone(phone, Some([Raw EXCEPT !.preserveFormat = Some(FALSE)]))
         = Returned(<<"*", "2">>)

----------------------------------------------------------------------------
(* C24 *)

\* a call with non-negative counts, no visibleRanges, no customMask, no plus
\* sign in the input, and neither a digit nor a plus sign in maskChar
RestrictedCase ==
    /\ WindowCase
    /\ "+" \notin Chars(phoneStr)
    /\ Chars(ResolvedMaskChar(Raw)) \cap (Digits \cup {"+"}) = {}

====
